---- MODULE Spec2Model ----
(***************************************************************************)
(* Verification model of the RoAI multi-LLM platform core:                 *)
(*   - the hash-chained audit log      (app/utils/audit_logger.py)         *)
(*   - the dual-model ensemble engine  (app/services/ensemble_service.py,  *)
(*     app/services/openai_service.py, app/services/gemini_service.py)     *)
(*   - the routing policy              (app/router.py)                     *)
(*   - the analysis entry point        (app/main.py, analyze_task)         *)
(*                                                                         *)
(* Conventions.                                                            *)
(*   A SHA-256 digest is modelled as the tuple of the hashed fields, which *)
(*   is injective (collision freedom); the sentinel "0" is the empty tuple.*)
(*   Risk scores are integers in hundredths of a point (8000 = 80.00),     *)
(*   confidences are integers in thousandths (854 = 0.854), and so is a    *)
(*   task's business impact (800 = 0.8).                                   *)
(***************************************************************************)
EXTENDS Integers, Sequences, FiniteSets, TLC

(* ------------------------------ bounds --------------------------------- *)
MaxEvents == 3
MaxDay == 2
MaxTampers == 1
\* AuditLogger.buffer_size is 100 in the source; scaled down so that the
\* "flush if buffer full" branch of log_event is exercised.
buffer_size == 2
MaxRequests == 1
MaxWriteFailures == 1
MaxItems == 2

(* ------------------------- audit log: values --------------------------- *)
Days == 1..MaxDay
\* previous_hash of the first event of a segment: the string "0"
ZeroHash == <<>>

EventTypes == {"llm_response", "routing_decision"}
Severities == {"info"}
UserIds == {"alice"}
Actions == {"act"}

\* A key of the details dict: the int n, or the str holding the decimal
\* text of n.  A dict is the sequence of its <<key, value>> items in
\* insertion order; its keys are distinct and of one kind (json.dumps with
\* sort_keys raises TypeError on a dict that mixes int and str keys).
IntKey(n) == [is_int |-> TRUE, n |-> n]
StrKey(n) == [is_int |-> FALSE, n |-> n]
DetailValues == {<<<<StrKey(1), "d1">>>>, <<<<StrKey(1), "d2">>>>}
\* the details callers of log_event pass; the other value is what an
\* edited line holds
LoggedDetails == {<<<<StrKey(1), "d1">>>>}

VARIABLES
    today,              \* the calendar day read by datetime.now()
    storage,            \* log_dir: day |-> lines of audit_<day>.jsonl
    current_log_file,   \* AuditLogger.current_log_file (its day)
    last_hash,          \* AuditLogger.last_hash
    events_buffer,      \* AuditLogger.events_buffer
    next_id,            \* source of unique event ids (time + random suffix)
    report,             \* <<r>>: verify_chain_integrity just returned r
    results,            \* the events query_events just returned
    query_call,         \* <<c>>: the arguments of that query_events call
    tampered,           \* positions <<day, line>> edited behind the logger
    last_op,            \* name of the last operation called
    pc,                 \* concurrent callers: position inside log_event
    local               \* concurrent callers: the event being appended

auditVars == <<today, storage, current_log_file, last_hash, events_buffer,
               next_id, report, results, query_call, tampered, last_op, pc,
               local>>

(* ------------------------- AuditEvent ---------------------------------- *)
\* str(n): the decimal digits of n
RECURSIVE Digits(_)
Digits(n) == IF n < 10 THEN <<n>> ELSE Append(Digits(n \div 10), n % 10)

\* s < t on str: lexicographic order
RECURSIVE LexLess(_, _)
LexLess(s, t) ==
    IF t = <<>> THEN FALSE
    ELSE IF s = <<>> THEN TRUE
    ELSE IF s[1] # t[1] THEN s[1] < t[1]
    ELSE LexLess(Tail(s), Tail(t))

\* The order sort_keys puts two keys of one dict in: ints by value, strs
\* lexicographically.
KeyLess(a, b) ==
    IF a.is_int THEN a.n < b.n ELSE LexLess(Digits(a.n), Digits(b.n))

\* json.dumps(obj, sort_keys=True) of a dict: the items sorted by key, every
\* key written as its text.
RECURSIVE json_dumps_sorted(_)
json_dumps_sorted(obj) ==
    IF obj = <<>> THEN <<>>
    ELSE LET m == CHOOSE i \in 1..Len(obj) :
                      \A j \in 1..Len(obj) : j # i => KeyLess(obj[i][1], obj[j][1])
             rest == [k \in 1..(Len(obj) - 1) |-> IF k < m THEN obj[k] ELSE obj[k + 1]]
         IN  <<<<Digits(obj[m][1].n), obj[m][2]>>>> \o json_dumps_sorted(rest)

\* json.loads(json.dumps(obj)) of a dict: the items in the same order, every
\* key turned into the str of its text.
json_loads_dumps(obj) ==
    [i \in 1..Len(obj) |-> <<StrKey(obj[i][1].n), obj[i][2]>>]

\* AuditEvent._calculate_hash: sha256 over the canonical JSON (sort_keys) of
\* every field but the hash itself.
calculate_hash(e) ==
    <<e.event_id, e.timestamp, e.event_type, e.severity, e.user_id,
      e.action, json_dumps_sorted(e.details), e.previous_hash>>

\* AuditEvent.__init__: fresh id and timestamp, then the hash of the fields.
AuditEvent(id, ts, event_type, severity, user_id, action, details, previous_hash) ==
    LET fields == [event_id |-> id, timestamp |-> ts, event_type |-> event_type,
                   severity |-> severity, user_id |-> user_id, action |-> action,
                   details |-> details, previous_hash |-> previous_hash]
    IN  [event_id |-> id, timestamp |-> ts, event_type |-> event_type,
         severity |-> severity, user_id |-> user_id, action |-> action,
         details |-> details, previous_hash |-> previous_hash,
         hash |-> calculate_hash(fields)]

\* AuditEvent.to_dict: the fields of the event as a dict.
to_dict(e) ==
    [event_id |-> e.event_id, timestamp |-> e.timestamp,
     event_type |-> e.event_type, severity |-> e.severity,
     user_id |-> e.user_id, action |-> e.action, details |-> e.details,
     previous_hash |-> e.previous_hash, hash |-> e.hash]

\* One persisted line as a reader gets it back: json.dumps(event.to_dict())
\* written by _flush_buffer, json.loads(line) in the readers.
json_line(e) == [to_dict(e) EXCEPT !.details = json_loads_dumps(@)]

\* AuditEvent.from_dict: builds a new event from the saved fields (which
\* computes a hash), then overrides event_id, timestamp and hash with the
\* saved values.
from_dict(data) ==
    LET event == AuditEvent(0, 0, data.event_type, data.severity, data.user_id,
                            data.action, data.details, data.previous_hash)
    IN  [event EXCEPT !.event_id = data.event_id,
                      !.timestamp = data.timestamp,
                      !.hash = data.hash]

(* ------------------------- AuditLogger helpers ------------------------- *)
\* AuditLogger._flush_buffer: append every buffered event to the current
\* log file; the caller empties the buffer.
FlushedStorage(stor, file, buf) ==
    IF buf = <<>> THEN stor
    ELSE [stor EXCEPT ![file] = @ \o [i \in 1..Len(buf) |-> json_line(buf[i])]]

\* What a line of a log file holds when it is no event: text json.loads
\* rejects, or bytes the text decoder of open(log_file, 'r') rejects.
BadJson == [corrupt |-> "json"]
BadBytes == [corrupt |-> "bytes"]
Unparsable(data) == "corrupt" \in DOMAIN data

\* sorted(log_dir.glob("audit_*.jsonl")) read line by line, with line numbers.
\* `for line in f` decodes the file in chunks larger than these files, so a
\* file holding undecodable bytes raises UnicodeDecodeError at its first
\* line: decodable is FALSE on every line of such a file.
FileLines(stor, d) ==
    LET decodable == \A j \in 1..Len(stor[d]) : stor[d][j] # BadBytes
    IN  [i \in 1..Len(stor[d]) |->
            [file |-> d, line |-> i, data |-> stor[d][i],
             decodable |-> decodable]]

RECURSIVE LogLines(_, _)
LogLines(stor, d) ==
    IF d > MaxDay THEN <<>> ELSE FileLines(stor, d) \o LogLines(stor, d + 1)

\* AuditLogger.verify_chain_integrity, the loop over every line of every
\* file.  acc carries total_events, verified_events, broken_chains and the
\* running previous_hash, which starts at "0" before the first file and is
\* carried from one file into the next.
RECURSIVE VerifyLines(_, _, _)
VerifyLines(lines, k, acc) ==
    IF k > Len(lines) THEN acc
    ELSE IF ~lines[k].decodable THEN [acc EXCEPT !.raised = TRUE]
    ELSE IF Unparsable(lines[k].data)
    THEN VerifyLines(lines, k + 1,
                     [acc EXCEPT !.broken_chains =
                         Append(@, [file |-> lines[k].file, line |-> lines[k].line,
                                    reason |-> "Parse error"])])
    ELSE
      LET ln == lines[k]
          data == ln.data
          linkBroken == data.previous_hash # acc.previous_hash
          afterLink ==
              IF linkBroken
              THEN Append(acc.broken_chains,
                          [file |-> ln.file, line |-> ln.line,
                           event_id |-> data.event_id,
                           expected_previous_hash |-> acc.previous_hash,
                           actual_previous_hash |-> data.previous_hash])
              ELSE acc.broken_chains
          event == from_dict(data)
          afterHash ==
              IF event.hash # data.hash
              THEN Append(afterLink,
                          [file |-> ln.file, line |-> ln.line,
                           event_id |-> data.event_id,
                           reason |-> "Hash mismatch - event may be tampered"])
              ELSE afterLink
      IN  VerifyLines(lines, k + 1,
                      [raised |-> FALSE,
                       total_events |-> acc.total_events + 1,
                       verified_events |-> IF linkBroken THEN acc.verified_events
                                           ELSE acc.verified_events + 1,
                       broken_chains |-> afterHash,
                       previous_hash |-> data.hash])

\* The report returned by verify_chain_integrity over the flushed storage.
\* integrity_percentage is kept as the exact fraction <<numerator, denominator>>.
\* raised: the call ended with an exception and returned no report.
VerifyReport(stor) ==
    LET acc == VerifyLines(LogLines(stor, 1), 1,
                           [raised |-> FALSE,
                            total_events |-> 0, verified_events |-> 0,
                            broken_chains |-> <<>>, previous_hash |-> ZeroHash])
    IN  IF acc.raised
        THEN [raised |-> TRUE, total_events |-> 0, verified_events |-> 0,
              integrity_percentage |-> <<0, 1>>, broken_chains |-> <<>>,
              intact |-> FALSE]
        ELSE [raised |-> FALSE,
              total_events |-> acc.total_events,
              verified_events |-> acc.verified_events,
              integrity_percentage |->
                  IF acc.total_events > 0
                  THEN <<acc.verified_events * 100, acc.total_events>> ELSE <<0, 1>>,
              broken_chains |-> acc.broken_chains,
              intact |-> Len(acc.broken_chains) = 0]

\* The filters of query_events; an absent filter (None) is the empty set,
\* a given one is a singleton.
Matches(event, f) ==
    /\ ~(f.start_date # {} /\ \E d \in f.start_date : event.timestamp < d)
    /\ ~(f.end_date # {} /\ \E d \in f.end_date : event.timestamp > d)
    /\ ~(f.event_type # {} /\ event.event_type \notin f.event_type)
    /\ ~(f.user_id # {} /\ event.user_id \notin f.user_id)
    /\ ~(f.severity # {} /\ event.severity \notin f.severity)

\* AuditLogger.query_events, the loop over every line of every file: a
\* matching event is appended first and the limit is tested afterwards; a
\* line that fails to parse is skipped.  Returns the events, or raised.
RECURSIVE QueryLines(_, _, _, _, _)
QueryLines(lines, k, f, limit, res) ==
    IF k > Len(lines) THEN [raised |-> FALSE, events |-> res]
    ELSE IF ~lines[k].decodable THEN [raised |-> TRUE, events |-> <<>>]
    ELSE IF Unparsable(lines[k].data) THEN QueryLines(lines, k + 1, f, limit, res)
    ELSE
      LET event == from_dict(lines[k].data)
      IN  IF Matches(event, f)
          THEN LET res2 == Append(res, event)
               IN  IF Len(res2) >= limit THEN [raised |-> FALSE, events |-> res2]
                   ELSE QueryLines(lines, k + 1, f, limit, res2)
          ELSE QueryLines(lines, k + 1, f, limit, res)

(* ------------------------- audit log: state ---------------------------- *)
Threads == {1, 2}
NoEvent == <<>>

\* AuditLogger.__init__ over an empty log directory: _initialize_log_file
\* picks today's file, _load_last_hash finds no file and keeps "0".
AuditInit ==
    /\ today = 1
    /\ storage = [d \in Days |-> <<>>]
    /\ current_log_file = 1
    /\ last_hash = ZeroHash
    /\ events_buffer = <<>>
    /\ next_id = 1
    /\ report = <<>>
    /\ results = <<>>
    /\ query_call = <<>>
    /\ tampered = {}
    /\ last_op = "init"
    /\ pc = [t \in Threads |-> "idle"]
    /\ local = [t \in Threads |-> NoEvent]

\* The calendar day advances (environment); the clock never runs backwards.
Tick ==
    /\ today < MaxDay
    /\ today' = today + 1
    /\ UNCHANGED <<storage, current_log_file, last_hash, events_buffer,
                   next_id, report, results, query_call, tampered, pc, local,
                   last_op>>

\* Mutation of Rotated: the chain is not restarted at "0" on a new day.
Rotated_KeepsLastHash ==
    IF today # current_log_file
    THEN [storage |-> FlushedStorage(storage, current_log_file, events_buffer),
          events_buffer |-> <<>>,
          current_log_file |-> today,
          last_hash |-> last_hash]
    ELSE [storage |-> storage, events_buffer |-> events_buffer,
          current_log_file |-> current_log_file, last_hash |-> last_hash]

\* Mutation of Rotated: the file is switched before the buffer is flushed.
Rotated_SwitchBeforeFlush ==
    IF today # current_log_file
    THEN [storage |-> FlushedStorage(storage, today, events_buffer),
          events_buffer |-> <<>>,
          current_log_file |-> today,
          last_hash |-> ZeroHash]
    ELSE [storage |-> storage, events_buffer |-> events_buffer,
          current_log_file |-> current_log_file, last_hash |-> last_hash]

\* AuditLogger.log_event, lines 182-188: on a new day flush the buffer to the
\* old file, switch file and restart the chain at "0".
Rotated ==
    IF today # current_log_file
    THEN [storage |-> FlushedStorage(storage, current_log_file, events_buffer),
          events_buffer |-> <<>>,
          current_log_file |-> today,
          last_hash |-> ZeroHash]
    ELSE [storage |-> storage, events_buffer |-> events_buffer,
          current_log_file |-> current_log_file, last_hash |-> last_hash]

\* AuditLogger.log_event as one call of a single caller.
log_event(event_type, user_id, action, details, severity) ==
    /\ next_id <= MaxEvents
    /\ \A t \in Threads : pc[t] = "idle"
    /\ LET r == Rotated
           event == AuditEvent(next_id, today, event_type, severity, user_id,
                               action, details, r.last_hash)
           buf == Append(r.events_buffer, event)
           full == Len(buf) >= buffer_size
       IN  /\ last_hash' = event.hash
           /\ current_log_file' = r.current_log_file
           /\ storage' = IF full
                         THEN FlushedStorage(r.storage, r.current_log_file, buf)
                         ELSE r.storage
           /\ events_buffer' = IF full THEN <<>> ELSE buf
    /\ next_id' = next_id + 1
    /\ last_op' = "log_event"
    /\ report' = <<>>
    /\ results' = <<>>
    /\ query_call' = <<>>
    /\ UNCHANGED <<today, tampered, pc, local>>

LogEvent ==
    \E event_type \in EventTypes, user_id \in UserIds, action \in Actions,
       details \in LoggedDetails, severity \in Severities :
        log_event(event_type, user_id, action, details, severity)

\* AuditLogger._flush_buffer called on its own (explicit flush, __del__).
flush_buffer ==
    /\ \A t \in Threads : pc[t] = "idle"
    /\ storage' = FlushedStorage(storage, current_log_file, events_buffer)
    /\ events_buffer' = <<>>
    /\ last_op' = "flush"
    /\ report' = <<>>
    /\ results' = <<>>
    /\ query_call' = <<>>
    /\ UNCHANGED <<today, current_log_file, last_hash, next_id, tampered, pc,
                   local>>

\* The log as a reader is meant to see it: the persisted lines of every
\* file in file order, then the events still in the buffer.
PendingLines(buf) == [i \in 1..Len(buf) |-> json_line(buf[i])]
LogContent(stor, buf) ==
    [i \in 1..Len(LogLines(stor, 1)) |-> LogLines(stor, 1)[i].data]
        \o PendingLines(buf)

\* Mutation of query_events: the scan starts without flushing the buffer.
query_events_NoFlush(f, limit) ==
    /\ \A t \in Threads : pc[t] = "idle"
    /\ LET scan == QueryLines(LogLines(storage, 1), 1, f, limit, <<>>)
       IN  /\ results' = scan.events
           /\ query_call' = <<[filters |-> f, limit |-> limit,
                               pending |-> Len(events_buffer),
                               log |-> LogContent(storage, events_buffer),
                               raised |-> scan.raised]>>
    /\ last_op' = "query"
    /\ report' = <<>>
    /\ UNCHANGED <<today, storage, events_buffer, current_log_file, last_hash,
                   next_id, tampered, pc, local>>

\* AuditLogger.query_events: flush, then scan.  query_call keeps the
\* arguments of the call, the number of events that were pending in the
\* buffer and the content of the log when the call began.
query_events(f, limit) ==
    /\ \A t \in Threads : pc[t] = "idle"
    /\ LET stor == FlushedStorage(storage, current_log_file, events_buffer)
           scan == QueryLines(LogLines(stor, 1), 1, f, limit, <<>>)
       IN  /\ storage' = stor
           /\ results' = scan.events
           /\ query_call' = <<[filters |-> f, limit |-> limit,
                               pending |-> Len(events_buffer),
                               log |-> LogContent(storage, events_buffer),
                               raised |-> scan.raised]>>
    /\ events_buffer' = <<>>
    /\ last_op' = "query"
    /\ report' = <<>>
    /\ UNCHANGED <<today, current_log_file, last_hash, next_id, tampered, pc,
                   local>>

QueryLimits == 0..2
QueryFilters ==
    [start_date : {{}, {2}}, end_date : {{}},
     event_type : {{}, {"llm_response"}},
     user_id : {{}}, severity : {{}}]

QueryEvents == \E f \in QueryFilters, limit \in QueryLimits : query_events(f, limit)

\* Mutation of verify_chain_integrity: the scan runs before the flush.
verify_chain_integrity_ScanBeforeFlush ==
    /\ \A t \in Threads : pc[t] = "idle"
    /\ storage' = FlushedStorage(storage, current_log_file, events_buffer)
    /\ report' = <<VerifyReport(storage)>>
    /\ events_buffer' = <<>>
    /\ last_op' = "verify"
    /\ results' = <<>>
    /\ query_call' = <<>>
    /\ UNCHANGED <<today, current_log_file, last_hash, next_id, tampered, pc,
                   local>>

\* AuditLogger.verify_chain_integrity: flush, then scan.
verify_chain_integrity ==
    /\ \A t \in Threads : pc[t] = "idle"
    /\ LET stor == FlushedStorage(storage, current_log_file, events_buffer)
       IN  /\ storage' = stor
           /\ report' = <<VerifyReport(stor)>>
    /\ events_buffer' = <<>>
    /\ last_op' = "verify"
    /\ results' = <<>>
    /\ query_call' = <<>>
    /\ UNCHANGED <<today, current_log_file, last_hash, next_id, tampered, pc,
                   local>>

\* AuditLogger._load_last_hash: the hash of the last line of the current
\* file; "0" when the file is missing or empty, and when the last line does
\* not parse (except Exception).
load_last_hash(stor, file) ==
    IF stor[file] = <<>> THEN ZeroHash
    ELSE IF Unparsable(stor[file][Len(stor[file])]) THEN ZeroHash
    ELSE stor[file][Len(stor[file])].hash

\* AuditLogger.__init__ over the log directory as it is, replacing the
\* logger in use: the fields of the new logger, given the files it finds.
NewLogger(stor) ==
    /\ \A t \in Threads : pc[t] = "idle"
    /\ current_log_file' = today
    /\ last_hash' = load_last_hash(stor, today)
    /\ events_buffer' = <<>>
    /\ last_op' = "recreate"
    /\ report' = <<>>
    /\ results' = <<>>
    /\ query_call' = <<>>
    /\ UNCHANGED <<today, next_id, tampered, pc, local>>

\* `del logger; logger = AuditLogger(log_dir)`: __del__ flushes the old
\* buffer, then the new logger is built.
Recreate_AfterDel ==
    /\ storage' = FlushedStorage(storage, current_log_file, events_buffer)
    /\ NewLogger(storage')

\* `logger = AuditLogger(log_dir)`: the new logger is built while the old
\* one is still referenced; the old one is released by the assignment and
\* its __del__ flushes the old buffer afterwards.
Recreate_Rebind ==
    /\ NewLogger(storage)
    /\ storage' = FlushedStorage(storage, current_log_file, events_buffer)

\* The process is killed and started again: __del__ does not run, the new
\* logger finds the files as they were.
Recreate_AfterKill ==
    /\ NewLogger(storage)
    /\ UNCHANGED storage

\* One persisted line is damaged in the file (environment): it becomes text
\* that is no JSON, or bytes that are no text.
CorruptLine ==
    /\ Cardinality(tampered) < MaxTampers
    /\ \A t \in Threads : pc[t] = "idle"
    /\ \E d \in Days : \E i \in 1..Len(storage[d]) : \E bad \in {BadJson, BadBytes} :
        /\ ~Unparsable(storage[d][i])
        /\ storage' = [storage EXCEPT ![d][i] = bad]
        /\ tampered' = tampered \cup {<<d, i>>}
    /\ last_op' = "corrupt"
    /\ report' = <<>>
    /\ results' = <<>>
    /\ query_call' = <<>>
    /\ UNCHANGED <<today, current_log_file, last_hash, events_buffer, next_id,
                   pc, local>>

\* Someone edits the details field of one persisted line directly in the
\* file and leaves its hash as it was (environment).
Tamper ==
    /\ Cardinality(tampered) < MaxTampers
    /\ \A t \in Threads : pc[t] = "idle"
    /\ \E d \in Days : \E i \in 1..Len(storage[d]) : \E v \in DetailValues :
        /\ v # storage[d][i].details
        /\ storage' = [storage EXCEPT ![d][i].details = v]
        /\ tampered' = tampered \cup {<<d, i>>}
    /\ last_op' = "tamper"
    /\ report' = <<>>
    /\ results' = <<>>
    /\ query_call' = <<>>
    /\ UNCHANGED <<today, current_log_file, last_hash, events_buffer, next_id,
                   pc, local>>

\* Someone edits a log file behind the logger and leaves every remaining
\* line byte for byte as it was (environment): a line is removed, ...
RemoveLine ==
    /\ Cardinality(tampered) < MaxTampers
    /\ \A t \in Threads : pc[t] = "idle"
    /\ \E d \in Days : \E i \in 1..Len(storage[d]) :
        /\ storage' = [storage EXCEPT ![d] =
                           SubSeq(@, 1, i - 1) \o SubSeq(@, i + 1, Len(@))]
        /\ tampered' = tampered \cup {<<"remove", d, i>>}
    /\ last_op' = "tamper"
    /\ report' = <<>>
    /\ results' = <<>>
    /\ query_call' = <<>>
    /\ UNCHANGED <<today, current_log_file, last_hash, events_buffer, next_id,
                   pc, local>>

\* ... a copy of a persisted line is inserted after line i of a file, ...
InsertLine ==
    /\ Cardinality(tampered) < MaxTampers
    /\ \A t \in Threads : pc[t] = "idle"
    /\ \E d \in Days : \E i \in 0..Len(storage[d]) :
       \E e \in Days : \E j \in 1..Len(storage[e]) :
        /\ storage' = [storage EXCEPT ![d] =
                           SubSeq(@, 1, i) \o <<storage[e][j]>>
                               \o SubSeq(@, i + 1, Len(@))]
        /\ tampered' = tampered \cup {<<"insert", d, i + 1>>}
    /\ last_op' = "tamper"
    /\ report' = <<>>
    /\ results' = <<>>
    /\ query_call' = <<>>
    /\ UNCHANGED <<today, current_log_file, last_hash, events_buffer, next_id,
                   pc, local>>

\* ... or two lines of a file change places.
SwapLines ==
    /\ Cardinality(tampered) < MaxTampers
    /\ \A t \in Threads : pc[t] = "idle"
    /\ \E d \in Days : \E i, j \in 1..Len(storage[d]) :
        /\ i < j
        /\ storage' = [storage EXCEPT ![d] =
                           [@ EXCEPT ![i] = storage[d][j], ![j] = storage[d][i]]]
        /\ tampered' = tampered \cup {<<"reorder", d, i>>}
    /\ last_op' = "tamper"
    /\ report' = <<>>
    /\ results' = <<>>
    /\ query_call' = <<>>
    /\ UNCHANGED <<today, current_log_file, last_hash, events_buffer, next_id,
                   pc, local>>

(* --------------------- audit log: failing writes ----------------------- *)
VARIABLES
    alive,      \* the AuditLogger object has not been destroyed yet
    outcome,    \* how the last call ended: "ok", "raised" (the caller saw the
                \* exception) or "ignored" (the interpreter dropped it)
    write_failures  \* number of writes that have failed so far

failVars == <<alive, outcome, write_failures>>

FailInit == alive = TRUE /\ outcome = "ok" /\ write_failures = 0

\* _flush_buffer when open() or a write raises: the lines written so far
\* (possibly none, never all) are in the file, self.events_buffer = [] is
\* not reached.
PartialWrites(stor, file, buf) ==
    {FlushedStorage(stor, file, SubSeq(buf, 1, k)) : k \in 0..(Len(buf) - 1)}

\* log_event, line 186: the flush before the rotation raises; nothing else
\* of log_event has run.
log_event_RotationFlushFails ==
    /\ alive
    /\ write_failures < MaxWriteFailures
    /\ write_failures' = write_failures + 1
    /\ today # current_log_file
    /\ events_buffer # <<>>
    /\ storage' \in PartialWrites(storage, current_log_file, events_buffer)
    /\ outcome' = "raised"
    /\ last_op' = "log_event"
    /\ report' = <<>>
    /\ results' = <<>>
    /\ query_call' = <<>>
    /\ UNCHANGED <<today, current_log_file, last_hash, events_buffer, next_id,
                   tampered, pc, local, alive>>

\* log_event, line 208: the event is created, hashed and buffered, then the
\* flush of the full buffer raises.
log_event_FullFlushFails ==
    /\ alive
    /\ write_failures < MaxWriteFailures
    /\ write_failures' = write_failures + 1
    /\ next_id <= MaxEvents
    /\ \E event_type \in EventTypes, user_id \in UserIds, action \in Actions,
          details \in DetailValues, severity \in Severities :
        LET r == Rotated
            event == AuditEvent(next_id, today, event_type, severity, user_id,
                                action, details, r.last_hash)
            buf == Append(r.events_buffer, event)
        IN  /\ Len(buf) >= buffer_size
            /\ storage' \in PartialWrites(r.storage, r.current_log_file, buf)
            /\ events_buffer' = buf
            /\ last_hash' = event.hash
            /\ current_log_file' = r.current_log_file
    /\ next_id' = next_id + 1
    /\ outcome' = "raised"
    /\ last_op' = "log_event"
    /\ report' = <<>>
    /\ results' = <<>>
    /\ query_call' = <<>>
    /\ UNCHANGED <<today, tampered, pc, local, alive>>

\* _flush_buffer raising inside an explicit flush, query_events (line 398)
\* or verify_chain_integrity (line 441): the call ends there.
flush_buffer_Fails ==
    /\ alive
    /\ write_failures < MaxWriteFailures
    /\ write_failures' = write_failures + 1
    /\ events_buffer # <<>>
    /\ storage' \in PartialWrites(storage, current_log_file, events_buffer)
    /\ outcome' = "raised"
    /\ last_op' = "flush"
    /\ report' = <<>>
    /\ results' = <<>>
    /\ query_call' = <<>>
    /\ UNCHANGED <<today, current_log_file, last_hash, events_buffer, next_id,
                   tampered, pc, local, alive>>

\* AuditLogger.__del__: the object is destroyed, the buffer is flushed first.
Del ==
    /\ alive
    /\ storage' = FlushedStorage(storage, current_log_file, events_buffer)
    /\ events_buffer' = <<>>
    /\ alive' = FALSE
    /\ outcome' = "ok"
    /\ last_op' = "del"
    /\ report' = <<>>
    /\ results' = <<>>
    /\ query_call' = <<>>
    /\ UNCHANGED <<today, current_log_file, last_hash, next_id, tampered, pc,
                   local, write_failures>>

\* AuditLogger.__del__ when the flush raises: Python prints the exception
\* and ignores it, and the object goes away with its buffer.
Del_WriteFails ==
    /\ alive
    /\ write_failures < MaxWriteFailures
    /\ write_failures' = write_failures + 1
    /\ events_buffer # <<>>
    /\ storage' \in PartialWrites(storage, current_log_file, events_buffer)
    /\ events_buffer' = <<>>
    /\ alive' = FALSE
    /\ outcome' = "ignored"
    /\ last_op' = "del"
    /\ report' = <<>>
    /\ results' = <<>>
    /\ query_call' = <<>>
    /\ UNCHANGED <<today, current_log_file, last_hash, next_id, tampered, pc,
                   local>>

(* ======================== ensemble engine ============================== *)
\* A JSON value of a provider's answer: a number, null, or something that is
\* not a number (a string such as "high"); a key may also be missing.
Num(n) == [k |-> "num", v |-> n]
Null == [k |-> "null", v |-> 0]
Str == [k |-> "str", v |-> 0]
Missing == [k |-> "missing", v |-> 0]

\* Numbers a model may answer.  The prompts ask for an integer 0-100 and a
\* float 0.0-1.0, but the services accept whatever JSON number comes back.
\* None of these values, nor any average of two of them, lies exactly
\* halfway between two rounded values, except ties that binary floating
\* point represents exactly.
ScoreValues == {4000, 5000, 7000, 7200, 7996, 8000}     \* hundredths
ConfidenceValues == {0, 600, 854, 900}                  \* thousandths
JsonScores == {Missing, Null, Str} \cup {Num(n) : n \in ScoreValues}
JsonConfidences == {Missing, Null} \cup {Num(n) : n \in ConfidenceValues}

\* What AIGateway.call_openai / call_gemini return, as far as the services
\* read it: success, and the shape of content ("none" on failure, "text" when
\* it is not JSON, "nondict" when it is JSON but not an object, "object").
FailedResponse == [success |-> FALSE, content |-> "none",
                   risk_score |-> Missing, confidence |-> Missing]
GatewayResponses ==
    {FailedResponse}
    \cup {[success |-> TRUE, content |-> c, risk_score |-> Missing,
           confidence |-> Missing] : c \in {"text", "nondict"}}
    \cup {[success |-> TRUE, content |-> "object", risk_score |-> rs,
           confidence |-> cf] : rs \in JsonScores, cf \in JsonConfidences}

\* dict.get(key, default): the default only when the key is missing
Get(field, default) == IF field.k = "missing" THEN Num(default) ELSE field

\* An exception leaving analyze_risk / analyze_long_context.
Raised == [raised |-> TRUE, risk_score |-> Null, confidence |-> Null,
           error |-> FALSE, note |-> FALSE]
NoResult == [raised |-> FALSE, risk_score |-> Null, confidence |-> Null,
             error |-> FALSE, note |-> FALSE]

\* OpenAIService._error_result / GeminiService._error_result
error_result ==
    [raised |-> FALSE, risk_score |-> Num(5000), confidence |-> Num(0),
     error |-> TRUE, note |-> FALSE]

\* GeminiService._text_fallback_result
text_fallback_result ==
    [raised |-> FALSE, risk_score |-> Num(5000), confidence |-> Num(600),
     error |-> FALSE, note |-> TRUE]

\* OpenAIService.analyze_risk, from the gateway response on (lines 92-115).
\* Only json.JSONDecodeError is caught: JSON that is not an object makes
\* risk_data.get raise AttributeError.
analyze_risk(response) ==
    IF response.success
    THEN CASE response.content = "text" -> error_result
           [] response.content = "nondict" -> Raised
           [] OTHER ->
                [raised |-> FALSE,
                 risk_score |-> Get(response.risk_score, 5000),
                 confidence |-> Get(response.confidence, 500),
                 error |-> FALSE, note |-> FALSE]
    ELSE error_result

\* GeminiService.analyze_long_context, from the gateway response on.
analyze_long_context(response) ==
    IF response.success
    THEN CASE response.content = "text" -> text_fallback_result
           [] response.content = "nondict" -> Raised
           [] OTHER ->
                [raised |-> FALSE,
                 risk_score |-> Get(response.risk_score, 5000),
                 confidence |-> Get(response.confidence, 700),
                 error |-> FALSE, note |-> FALSE]
    ELSE error_result

Abs(x) == IF x < 0 THEN -x ELSE x
Min(a, b) == IF a <= b THEN a ELSE b

\* Python round(x, n) and the ":.nf" format: n / d rounded to the nearest
\* integer, an exact tie going to the even neighbour.
RoundHalfEven(n, d) ==
    LET q == n \div d
        r == n % d
    IN  IF 2 * r < d THEN q
        ELSE IF 2 * r > d THEN q + 1
        ELSE IF q % 2 = 0 THEN q ELSE q + 1

NoComparison ==
    [raised |-> FALSE, openai_score |-> 0, gemini_score |-> 0,
     score_deviation |-> 0, score_deviation_percent |-> 0,
     openai_confidence |-> 0, gemini_confidence |-> 0, confidence_delta |-> 0,
     agreement |-> FALSE, high_deviation |-> FALSE, avg_score |-> 0,
     avg_confidence |-> 0, deviation_threshold |-> 0]

\* Mutation of compare_results: agreement asks for a deviation of at most
\* half the threshold, which leaves a middle band.
compare_results_NarrowAgreement(openai_result, gemini_result, threshold) ==
    IF \/ openai_result.risk_score.k # "num"
       \/ gemini_result.risk_score.k # "num"
       \/ openai_result.confidence.k # "num"
       \/ gemini_result.confidence.k # "num"
    THEN [NoComparison EXCEPT !.raised = TRUE]
    ELSE
      LET openai_score == openai_result.risk_score.v
          gemini_score == gemini_result.risk_score.v
          score_deviation == Abs(openai_score - gemini_score)
          openai_confidence == openai_result.confidence.v
          gemini_confidence == gemini_result.confidence.v
          high_deviation == score_deviation > threshold
      IN  [raised |-> FALSE,
           openai_score |-> openai_score,
           gemini_score |-> gemini_score,
           score_deviation |-> score_deviation,
           score_deviation_percent |-> score_deviation,
           openai_confidence |-> openai_confidence,
           gemini_confidence |-> gemini_confidence,
           confidence_delta |-> Abs(openai_confidence - gemini_confidence),
           agreement |-> 2 * score_deviation <= threshold,
           high_deviation |-> high_deviation,
           avg_score |-> openai_score + gemini_score,
           avg_confidence |-> openai_confidence + gemini_confidence,
           deviation_threshold |-> threshold]

\* EnsembleService._compare_results.  The arithmetic raises TypeError as
\* soon as a score or a confidence is not a number.  avg_score and
\* avg_confidence are kept as the doubled value (units of 1/200 and 1/2000).
compare_results(openai_result, gemini_result, threshold) ==
    IF \/ openai_result.risk_score.k # "num"
       \/ gemini_result.risk_score.k # "num"
       \/ openai_result.confidence.k # "num"
       \/ gemini_result.confidence.k # "num"
    THEN [NoComparison EXCEPT !.raised = TRUE]
    ELSE
      LET openai_score == openai_result.risk_score.v
          gemini_score == gemini_result.risk_score.v
          score_deviation == Abs(openai_score - gemini_score)
          openai_confidence == openai_result.confidence.v
          gemini_confidence == gemini_result.confidence.v
          high_deviation == score_deviation > threshold
      IN  [raised |-> FALSE,
           openai_score |-> openai_score,
           gemini_score |-> gemini_score,
           score_deviation |-> score_deviation,
           score_deviation_percent |-> score_deviation,
           openai_confidence |-> openai_confidence,
           gemini_confidence |-> gemini_confidence,
           confidence_delta |-> Abs(openai_confidence - gemini_confidence),
           agreement |-> ~high_deviation,
           high_deviation |-> high_deviation,
           avg_score |-> openai_score + gemini_score,
           avg_confidence |-> openai_confidence + gemini_confidence,
           deviation_threshold |-> threshold]

\* EnsembleService._make_decision, the three branches (lines 206-258).
\* final_score is in units of 1/200, confidence in units of 1/2000, both
\* before rounding; reasoning is the tuple of the parts of the f-string.

\* Mutation of EscalateBranch: the average confidence instead of the lower.
EscalateBranch_AvgConfidence(c) ==
    [decision_type |-> "ESCALATE",
     final_score |-> c.avg_score,
     confidence |-> c.avg_confidence,
     reasoning |-> <<"High deviation detected",
                     RoundHalfEven(c.score_deviation, 100),
                     "OpenAI", c.openai_score, "Gemini", c.gemini_score,
                     "Recommend human review for final decision.">>]

\* lines 206-215: high deviation, escalate to human review
EscalateBranch(c) ==
    [decision_type |-> "ESCALATE",
     final_score |-> c.avg_score,
     confidence |-> 2 * Min(c.openai_confidence, c.gemini_confidence),
     reasoning |-> <<"High deviation detected",
                     RoundHalfEven(c.score_deviation, 100),
                     "OpenAI", c.openai_score, "Gemini", c.gemini_score,
                     "Recommend human review for final decision.">>]

\* Mutation of ConsensusBranch: the comparison of the confidences reversed.
ConsensusBranch_LowerConfidence(c) ==
    LET openai_preferred == c.openai_confidence < c.gemini_confidence
        confidence == IF openai_preferred THEN c.openai_confidence
                      ELSE c.gemini_confidence
    IN  [decision_type |-> "CONSENSUS",
         final_score |-> 2 * (IF openai_preferred THEN c.openai_score
                              ELSE c.gemini_score),
         confidence |-> 2 * confidence,
         reasoning |-> <<"Models in agreement",
                         RoundHalfEven(c.score_deviation, 100),
                         "Using",
                         IF openai_preferred THEN "OpenAI" ELSE "Gemini",
                         "result with higher confidence",
                         RoundHalfEven(confidence, 10)>>]

\* lines 217-234: agreement, the result of the more confident model; OpenAI
\* only when its confidence is strictly higher.
ConsensusBranch(c) ==
    LET openai_preferred == c.openai_confidence > c.gemini_confidence
        confidence == IF openai_preferred THEN c.openai_confidence
                      ELSE c.gemini_confidence
    IN  [decision_type |-> "CONSENSUS",
         final_score |-> 2 * (IF openai_preferred THEN c.openai_score
                              ELSE c.gemini_score),
         confidence |-> 2 * confidence,
         reasoning |-> <<"Models in agreement",
                         RoundHalfEven(c.score_deviation, 100),
                         "Using",
                         IF openai_preferred THEN "OpenAI" ELSE "Gemini",
                         "result with higher confidence",
                         RoundHalfEven(confidence, 10)>>]

\* lines 236-258: moderate deviation, confidence-weighted average (the
\* quotient is truncated to 1/200 of a point)
WeightedBranch(c) ==
    LET total_confidence == c.openai_confidence + c.gemini_confidence
        final_score ==
            IF total_confidence > 0
            THEN (2 * (c.openai_score * c.openai_confidence
                       + c.gemini_score * c.gemini_confidence))
                 \div total_confidence
            ELSE c.avg_score
    IN  [decision_type |-> "WEIGHTED_AVERAGE",
         final_score |-> final_score,
         confidence |-> c.avg_confidence,
         reasoning |-> <<"Moderate deviation",
                         RoundHalfEven(c.score_deviation, 100),
                         "Using confidence-weighted average",
                         RoundHalfEven(final_score, 200)>>]

DecisionBranch(c) ==
    IF c.high_deviation THEN EscalateBranch(c)
    ELSE IF c.agreement THEN ConsensusBranch(c)
    ELSE WeightedBranch(c)

\* EnsembleService._make_decision, lines 260-278: the risk band of the
\* unrounded final_score, then the returned record with final_score rounded
\* to one decimal (tenths) and confidence to two decimals (hundredths).
make_decision(c) ==
    LET b == DecisionBranch(c)
        risk_level == IF b.final_score >= 16000 THEN "CRITICAL"
                      ELSE IF b.final_score >= 12000 THEN "HIGH"
                      ELSE IF b.final_score >= 8000 THEN "MEDIUM"
                      ELSE "LOW"
    IN  [decision_type |-> b.decision_type,
         final_score |-> RoundHalfEven(b.final_score, 20),
         risk_level |-> risk_level,
         confidence |-> RoundHalfEven(b.confidence, 20),
         reasoning |-> b.reasoning,
         requires_human_review |-> c.high_deviation,
         model_agreement |-> c.agreement]

NoDecision ==
    [decision_type |-> "NONE", final_score |-> 0, risk_level |-> "NONE",
     confidence |-> 0, reasoning |-> <<>>, requires_human_review |-> FALSE,
     model_agreement |-> FALSE]

\* EnsembleService._update_metrics (request and agreement counters)
update_metrics(m, c) ==
    [total_requests |-> m.total_requests + 1,
     agreements |-> IF c.agreement THEN m.agreements + 1 ELSE m.agreements,
     disagreements |-> IF c.agreement THEN m.disagreements
                       ELSE m.disagreements + 1,
     escalations |-> IF c.high_deviation THEN m.escalations + 1
                     ELSE m.escalations]

VARIABLES
    pc_ens,              \* position inside analyze_with_validation
    deviation_threshold, \* EnsembleService.deviation_threshold (hundredths)
    openai_response,     \* the last answer of gateway.call_openai
    gemini_response,     \* the last answer of gateway.call_gemini
    openai_result,       \* local openai_result
    gemini_result,       \* local gemini_result
    comparison,          \* local comparison
    decision,            \* the returned ensemble_decision
    metrics,             \* EnsembleService.metrics
    invocations,         \* provider |-> calls made during the current request
    ens_calls            \* number of analyze_with_validation calls started

ensVars == <<pc_ens, deviation_threshold, openai_response, gemini_response,
             openai_result, gemini_result, comparison, decision, metrics,
             invocations, ens_calls>>

\* The deviation_threshold argument of EnsembleService(...): absent (None)
\* is the empty set, a given value is a singleton (hundredths of a point).
ThresholdArgs == {{}, {0}, {200}, {1500}}

EnsembleInit ==
    /\ pc_ens = "new"
    /\ deviation_threshold = 0
    /\ openai_response = FailedResponse
    /\ gemini_response = FailedResponse
    /\ openai_result = NoResult
    /\ gemini_result = NoResult
    /\ comparison = NoComparison
    /\ decision = NoDecision
    /\ metrics = [total_requests |-> 0, agreements |-> 0, disagreements |-> 0,
                  escalations |-> 0]
    /\ invocations = [openai |-> 0, gemini |-> 0]
    /\ ens_calls = 0

\* EnsembleService.__init__: deviation_threshold or float(getenv(..., "15"))
EnsembleService(arg) ==
    /\ pc_ens = "new"
    /\ deviation_threshold' =
           (IF arg = {} \/ arg = {0} THEN 1500 ELSE CHOOSE t \in arg : TRUE)
    /\ pc_ens' = "idle"
    /\ UNCHANGED <<openai_response, gemini_response, openai_result,
                   gemini_result, comparison, decision, metrics, invocations,
                   ens_calls>>

Construct == \E arg \in ThresholdArgs : EnsembleService(arg)

\* analyze_with_validation is entered; inside the event loop the task
\* wrapping openai_service.analyze_risk runs first, to completion.
ParallelOpenAI ==
    /\ pc_ens \in {"idle", "done", "raised"}
    /\ ens_calls < MaxRequests
    /\ \E response \in GatewayResponses :
        /\ openai_response' = response
        /\ openai_result' = analyze_risk(response)
    /\ gemini_response' = FailedResponse
    /\ gemini_result' = NoResult
    /\ comparison' = NoComparison
    /\ decision' = NoDecision
    /\ invocations' = [openai |-> 1, gemini |-> 0]
    /\ ens_calls' = ens_calls + 1
    /\ pc_ens' = "par_gemini"
    /\ UNCHANGED <<deviation_threshold, metrics>>

\* The task wrapping gemini_service.analyze_long_context runs next; then
\* _parallel_analysis resumes and either returns both results or re-raises
\* the exception of a task, which sends the caller to the sequential fallback.
ParallelGemini ==
    /\ pc_ens = "par_gemini"
    /\ \E response \in GatewayResponses :
        /\ gemini_response' = response
        /\ gemini_result' = analyze_long_context(response)
        /\ pc_ens' = IF openai_result.raised \/ analyze_long_context(response).raised
                     THEN "seq_openai" ELSE "compare"
    /\ invocations' = [invocations EXCEPT !.gemini = @ + 1]
    /\ UNCHANGED <<deviation_threshold, openai_response, openai_result,
                   comparison, decision, metrics, ens_calls>>

\* except Exception: openai_result = self.openai_service.analyze_risk(task)
FallbackOpenAI ==
    /\ pc_ens = "seq_openai"
    /\ \E response \in GatewayResponses :
        /\ openai_response' = response
        /\ openai_result' = analyze_risk(response)
        /\ pc_ens' = IF analyze_risk(response).raised THEN "raised"
                     ELSE "seq_gemini"
    /\ invocations' = [invocations EXCEPT !.openai = @ + 1]
    /\ UNCHANGED <<deviation_threshold, gemini_response, gemini_result,
                   comparison, decision, metrics, ens_calls>>

\* gemini_result = self.gemini_service.analyze_long_context(task)
FallbackGemini ==
    /\ pc_ens = "seq_gemini"
    /\ \E response \in GatewayResponses :
        /\ gemini_response' = response
        /\ gemini_result' = analyze_long_context(response)
        /\ pc_ens' = IF analyze_long_context(response).raised THEN "raised"
                     ELSE "compare"
    /\ invocations' = [invocations EXCEPT !.gemini = @ + 1]
    /\ UNCHANGED <<deviation_threshold, openai_response, openai_result,
                   comparison, decision, metrics, ens_calls>>

\* Mutation of CompareAndDecide: the decision is taken as soon as the OpenAI
\* result is there, a Gemini result still outstanding counting as an error
\* result.
CompareAndDecide_BeforeJoin ==
    /\ pc_ens \in {"par_gemini", "compare"}
    /\ LET c == compare_results(openai_result,
                                IF pc_ens = "par_gemini" THEN error_result
                                ELSE gemini_result,
                                deviation_threshold)
       IN  IF c.raised
           THEN /\ pc_ens' = "raised"
                /\ UNCHANGED <<comparison, decision, metrics>>
           ELSE /\ comparison' = c
                /\ decision' = make_decision(c)
                /\ metrics' = update_metrics(metrics, c)
                /\ pc_ens' = "done"
    /\ UNCHANGED <<deviation_threshold, openai_response, gemini_response,
                   openai_result, gemini_result, invocations, ens_calls>>

\* analyze_with_validation, lines 81-107: compare, decide, update the
\* metrics and return; an exception of _compare_results leaves the call.
CompareAndDecide ==
    /\ pc_ens = "compare"
    /\ LET c == compare_results(openai_result, gemini_result, deviation_threshold)
       IN  IF c.raised
           THEN /\ pc_ens' = "raised"
                /\ UNCHANGED <<comparison, decision, metrics>>
           ELSE /\ comparison' = c
                /\ decision' = make_decision(c)
                /\ metrics' = update_metrics(metrics, c)
                /\ pc_ens' = "done"
    /\ UNCHANGED <<deviation_threshold, openai_response, gemini_response,
                   openai_result, gemini_result, invocations, ens_calls>>

(* ------------- log_event called by concurrent callers ------------------ *)
\* The source takes no lock in log_event, so two callers interleave between
\* its statements.  Positions: "idle" -> "created" (lines 182-198: rotation
\* check and AuditEvent(previous_hash=self.last_hash)) -> "hashed" (line 201)
\* -> "appended" (line 204) -> "idle" (lines 207-210).
LogCreate(t) ==
    /\ pc[t] = "idle"
    /\ next_id <= MaxEvents
    /\ \E event_type \in EventTypes, user_id \in UserIds, action \in Actions,
          details \in DetailValues, severity \in Severities :
        LET r == Rotated
            event == AuditEvent(next_id, today, event_type, severity, user_id,
                                action, details, r.last_hash)
        IN  /\ storage' = r.storage
            /\ events_buffer' = r.events_buffer
            /\ current_log_file' = r.current_log_file
            /\ last_hash' = r.last_hash
            /\ local' = [local EXCEPT ![t] = event]
    /\ next_id' = next_id + 1
    /\ pc' = [pc EXCEPT ![t] = "created"]
    /\ last_op' = "log_event"
    /\ report' = <<>>
    /\ results' = <<>>
    /\ query_call' = <<>>
    /\ UNCHANGED <<today, tampered>>

LogSetHash(t) ==
    /\ pc[t] = "created"
    /\ last_hash' = local[t].hash
    /\ pc' = [pc EXCEPT ![t] = "hashed"]
    /\ last_op' = "log_event"
    /\ report' = <<>>
    /\ results' = <<>>
    /\ query_call' = <<>>
    /\ UNCHANGED <<today, storage, current_log_file, events_buffer, next_id,
                   tampered, local>>

LogAppend(t) ==
    /\ pc[t] = "hashed"
    /\ events_buffer' = Append(events_buffer, local[t])
    /\ pc' = [pc EXCEPT ![t] = "appended"]
    /\ last_op' = "log_event"
    /\ report' = <<>>
    /\ results' = <<>>
    /\ query_call' = <<>>
    /\ UNCHANGED <<today, storage, current_log_file, last_hash, next_id,
                   tampered, local>>

LogReturn(t) ==
    /\ pc[t] = "appended"
    /\ LET full == Len(events_buffer) >= buffer_size
       IN  /\ storage' = IF full
                         THEN FlushedStorage(storage, current_log_file, events_buffer)
                         ELSE storage
           /\ events_buffer' = IF full THEN <<>> ELSE events_buffer
    /\ pc' = [pc EXCEPT ![t] = "idle"]
    /\ local' = [local EXCEPT ![t] = NoEvent]
    /\ last_op' = "log_event"
    /\ report' = <<>>
    /\ results' = <<>>
    /\ query_call' = <<>>
    /\ UNCHANGED <<today, current_log_file, last_hash, next_id, tampered>>

(* ============================ router =================================== *)
\* Task attributes read by the router.  context_length is a token count,
\* business_impact is in thousandths (800 = 0.8); the values sit on both
\* sides of, and exactly at, the thresholds below.
ContextLengths == {0, 999, 1000, 1001, 79999, 80000, 80001}
BusinessImpacts == {0, 500, 799, 800, 801, 1000}
Tasks ==
    [requires_strict_json : BOOLEAN, context_length : ContextLengths,
     multi_document : BOOLEAN, business_impact : BusinessImpacts]

\* The environment variables CONTEXT_LENGTH_THRESHOLD and
\* BUSINESS_IMPACT_THRESHOLD: unset is the empty set, a value is a singleton.
ContextThresholdEnv == {{}, {0}, {1000}}
ImpactThresholdEnv == {{}, {0}, {500}, {1000}}

NoTask ==
    [requires_strict_json |-> FALSE, context_length |-> 0,
     multi_document |-> FALSE, business_impact |-> 0]

VARIABLES
    router_pc,                  \* "new", "ready", "routed"
    context_length_threshold,   \* LLMRouter.context_length_threshold
    business_impact_threshold,  \* LLMRouter.business_impact_threshold
    task,                       \* the task of the last route call
    selected_model,             \* what the last route call returned
    routing_details             \* <<d>>: get_routing_details just returned d

routerVars == <<router_pc, context_length_threshold, business_impact_threshold,
                task, selected_model, routing_details>>

RouterInit ==
    /\ router_pc = "new"
    /\ context_length_threshold = 0
    /\ business_impact_threshold = 0
    /\ task = NoTask
    /\ selected_model = "none"
    /\ routing_details = <<>>

\* LLMRouter.__init__: int(getenv(..., "80000")), float(getenv(..., "0.8"))
LLMRouter(context_env, impact_env) ==
    /\ router_pc = "new"
    /\ context_length_threshold' =
           (IF context_env = {} THEN 80000 ELSE CHOOSE v \in context_env : TRUE)
    /\ business_impact_threshold' =
           (IF impact_env = {} THEN 800 ELSE CHOOSE v \in impact_env : TRUE)
    /\ router_pc' = "ready"
    /\ UNCHANGED <<task, selected_model, routing_details>>

ConstructRouter ==
    \E context_env \in ContextThresholdEnv, impact_env \in ImpactThresholdEnv :
        LLMRouter(context_env, impact_env)

\* Mutation of route: the business-impact rule is tried before the
\* multi-document rule.
route_ImpactBeforeMultiDocument(t) ==
    IF t.requires_strict_json THEN "openai"
    ELSE IF t.context_length > context_length_threshold THEN "gemini"
    ELSE IF t.business_impact > business_impact_threshold THEN "ensemble"
    ELSE IF t.multi_document THEN "gemini"
    ELSE "openai"

\* Mutation of route: the context rule is tried before the strict-JSON rule.
route_ContextBeforeStrictJson(t) ==
    IF t.context_length > context_length_threshold THEN "gemini"
    ELSE IF t.requires_strict_json THEN "openai"
    ELSE IF t.multi_document THEN "gemini"
    ELSE IF t.business_impact > business_impact_threshold THEN "ensemble"
    ELSE "openai"

\* Mutation of route: the context rule fires at the threshold itself.
route_ContextAtThreshold(t) ==
    IF t.requires_strict_json THEN "openai"
    ELSE IF t.context_length >= context_length_threshold THEN "gemini"
    ELSE IF t.multi_document THEN "gemini"
    ELSE IF t.business_impact > business_impact_threshold THEN "ensemble"
    ELSE "openai"

\* Mutation of route: the impact rule fires at the threshold itself.
route_ImpactAtThreshold(t) ==
    IF t.requires_strict_json THEN "openai"
    ELSE IF t.context_length > context_length_threshold THEN "gemini"
    ELSE IF t.multi_document THEN "gemini"
    ELSE IF t.business_impact >= business_impact_threshold THEN "ensemble"
    ELSE "openai"

\* LLMRouter.route
route(t) ==
    IF t.requires_strict_json THEN "openai"
    ELSE IF t.context_length > context_length_threshold THEN "gemini"
    ELSE IF t.multi_document THEN "gemini"
    ELSE IF t.business_impact > business_impact_threshold THEN "ensemble"
    ELSE "openai"

\* One call of router.route(task).
Route ==
    /\ router_pc \in {"ready", "routed"}
    /\ \E t \in Tasks :
        /\ task' = t
        /\ selected_model' = route(t)
    /\ router_pc' = "routed"
    /\ routing_details' = <<>>
    /\ UNCHANGED <<context_length_threshold, business_impact_threshold>>

\* format(n, ","): the decimal text of n in groups of three digits
RECURSIVE ThousandsGroups(_)
ThousandsGroups(n) ==
    IF n < 1000 THEN <<n>> ELSE Append(ThousandsGroups(n \div 1000), n % 1000)

\* format(x, ".1%"): x as a percentage with one decimal, <<whole, decimal>>;
\* x is in thousandths, so the decimal is its last digit.
PercentOneDecimal(x) == <<x \div 10, x % 10>>

NoValue == <<>>

\* Mutation of get_routing_reason: the business-impact rule is explained
\* before the multi-document rule.
get_routing_reason_ImpactBeforeMultiDocument(t) ==
    IF t.requires_strict_json
    THEN [rule |-> "Structured JSON output required", value |-> NoValue,
          target |-> "OpenAI", why |-> "provides best schema adherence"]
    ELSE IF t.context_length > context_length_threshold
    THEN [rule |-> "Large context", value |-> ThousandsGroups(t.context_length),
          target |-> "Gemini", why |-> "optimized for long-context processing"]
    ELSE IF t.business_impact > business_impact_threshold
    THEN [rule |-> "High business impact",
          value |-> PercentOneDecimal(t.business_impact),
          target |-> "Ensemble", why |-> "validation for critical decisions"]
    ELSE IF t.multi_document
    THEN [rule |-> "Multi-document analysis", value |-> NoValue,
          target |-> "Gemini", why |-> "excels at cross-document correlation"]
    ELSE [rule |-> "General task", value |-> NoValue,
          target |-> "OpenAI",
          why |-> "provides optimal balance of speed, cost, and quality"]

\* LLMRouter.get_routing_reason: the text "<rule> (<value>) - <target> <why>"
get_routing_reason(t) ==
    IF t.requires_strict_json
    THEN [rule |-> "Structured JSON output required", value |-> NoValue,
          target |-> "OpenAI", why |-> "provides best schema adherence"]
    ELSE IF t.context_length > context_length_threshold
    THEN [rule |-> "Large context", value |-> ThousandsGroups(t.context_length),
          target |-> "Gemini", why |-> "optimized for long-context processing"]
    ELSE IF t.multi_document
    THEN [rule |-> "Multi-document analysis", value |-> NoValue,
          target |-> "Gemini", why |-> "excels at cross-document correlation"]
    ELSE IF t.business_impact > business_impact_threshold
    THEN [rule |-> "High business impact",
          value |-> PercentOneDecimal(t.business_impact),
          target |-> "Ensemble", why |-> "validation for critical decisions"]
    ELSE [rule |-> "General task", value |-> NoValue,
          target |-> "OpenAI",
          why |-> "provides optimal balance of speed, cost, and quality"]

\* LLMRouter.get_routing_details: route, then get_routing_reason, returned
\* with the task characteristics and the thresholds.
get_routing_details(t) ==
    /\ router_pc \in {"ready", "routed"}
    /\ task' = t
    /\ selected_model' = route(t)
    /\ routing_details' =
           <<[selected_model |-> route(t),
              reason |-> get_routing_reason(t),
              task_characteristics |-> t,
              thresholds |->
                  [context_length_threshold |-> context_length_threshold,
                   business_impact_threshold |-> business_impact_threshold]]>>
    /\ router_pc' = "routed"
    /\ UNCHANGED <<context_length_threshold, business_impact_threshold>>

GetRoutingDetails == \E t \in Tasks : get_routing_details(t)

(* ======================== main: analyze_task =========================== *)
VARIABLES
    analyze_pc,     \* position inside analyze_task
    analysis,       \* provider and result of the last analyze_task call
    observed,       \* number of requests logged to the ObservabilityService
    analyses        \* number of analyze_task calls started

mainVars == <<analyze_pc, analysis, observed, analyses>>

MainInit ==
    /\ analyze_pc = "idle"
    /\ analysis = [provider |-> "none", result |-> NoResult]
    /\ observed = 0
    /\ analyses = 0

\* initialize_session_state: LLMRouter() and EnsembleService(gateway) are
\* built without arguments (here with the threshold environment unset).
initialize_session_state ==
    /\ LLMRouter({}, {})
    /\ EnsembleService({})
    /\ UNCHANGED mainVars

\* analyze_task, lines 136-138: the routing decision.
AnalyzeRoute ==
    /\ analyze_pc \in {"idle", "returned", "raised"}
    /\ analyses < MaxRequests
    /\ Route
    /\ analyze_pc' = selected_model'
    /\ analyses' = analyses + 1
    /\ UNCHANGED <<analysis, observed>>

\* analyze_task, lines 141-143 and 160-166: the OpenAI path; the request
\* goes to the observability service.
AnalyzeOpenAI ==
    /\ analyze_pc = "openai"
    /\ \E response \in GatewayResponses :
        LET r == analyze_risk(response)
        IN  /\ analysis' = [provider |-> "openai", result |-> r]
            /\ analyze_pc' = IF r.raised THEN "raised" ELSE "returned"
            /\ observed' = IF r.raised THEN observed ELSE observed + 1
    /\ UNCHANGED analyses

\* analyze_task, lines 144-146 and 160-166: the Gemini path.
AnalyzeGemini ==
    /\ analyze_pc = "gemini"
    /\ \E response \in GatewayResponses :
        LET r == analyze_long_context(response)
        IN  /\ analysis' = [provider |-> "gemini", result |-> r]
            /\ analyze_pc' = IF r.raised THEN "raised" ELSE "returned"
            /\ observed' = IF r.raised THEN observed ELSE observed + 1
    /\ UNCHANGED analyses

\* analyze_task, line 148: analyze_with_validation is entered ...
AnalyzeEnsembleCall ==
    /\ analyze_pc = "ensemble"
    /\ ParallelOpenAI
    /\ analyze_pc' = "in_ensemble"
    /\ UNCHANGED <<analysis, observed, analyses>>

\* ... and runs its remaining steps.
AnalyzeEnsembleStep(step) ==
    /\ analyze_pc = "in_ensemble"
    /\ step
    /\ UNCHANGED mainVars

\* analyze_task, lines 149-158: the decision comes back and is logged to
\* the observability service.
AnalyzeEnsembleReturn ==
    /\ analyze_pc = "in_ensemble"
    /\ pc_ens = "done"
    /\ analysis' = [provider |-> "ensemble", result |-> decision]
    /\ observed' = observed + 1
    /\ analyze_pc' = "returned"
    /\ UNCHANGED analyses

\* An exception of analyze_with_validation leaves analyze_task.
AnalyzeEnsembleRaised ==
    /\ analyze_pc = "in_ensemble"
    /\ pc_ens = "raised"
    /\ analyze_pc' = "raised"
    /\ UNCHANGED <<analysis, observed, analyses>>

(* ----------------------- AuditEvent round trip ------------------------- *)
\* The dicts given as details: at most MaxItems items, keys 9 and 10 as ints
\* or as strs (one kind per dict).
DetailKeys == {9, 10}
DetailDicts ==
    {<<>>}
    \cup {<<<<k, v>>>> :
             k \in {IntKey(n) : n \in DetailKeys} \cup {StrKey(n) : n \in DetailKeys},
             v \in {"d1", "d2"}}
    \cup {<<<<k1, v1>>, <<k2, v2>>>> :
             k1 \in {IntKey(n) : n \in DetailKeys} \cup {StrKey(n) : n \in DetailKeys},
             k2 \in {IntKey(n) : n \in DetailKeys} \cup {StrKey(n) : n \in DetailKeys},
             v1 \in {"d1", "d2"}, v2 \in {"d1", "d2"}}

VARIABLES
    round_pc,       \* "start", "created", "persisted", "rebuilt"
    event,          \* the AuditEvent that was constructed
    line,           \* json.loads of the line written for it
    rebuilt         \* AuditEvent.from_dict(line)

roundVars == <<round_pc, event, line, rebuilt>>

RoundTripInit ==
    /\ round_pc = "start"
    /\ event = NoEvent
    /\ line = NoEvent
    /\ rebuilt = NoEvent

\* AuditEvent(...): the constructor hashes the fields; json.dumps with
\* sort_keys raises TypeError for a dict mixing int and str keys, so no
\* such event exists.
Create ==
    /\ round_pc = "start"
    /\ \E event_type \in EventTypes, details \in DetailDicts :
          /\ Len(details) <= MaxItems
          /\ \A i, j \in 1..Len(details) :
                /\ details[i][1].is_int = details[j][1].is_int
                /\ i # j => details[i][1] # details[j][1]
          /\ event' = AuditEvent(1, 1, event_type, "info", "alice", "act",
                                 details, ZeroHash)
    /\ round_pc' = "created"
    /\ UNCHANGED <<line, rebuilt>>

\* _flush_buffer writes json.dumps(event.to_dict()); a reader json.loads it.
Persist ==
    /\ round_pc = "created"
    /\ line' = json_line(event)
    /\ round_pc' = "persisted"
    /\ UNCHANGED <<event, rebuilt>>

\* AuditEvent.from_dict(data) on the line read back.
Rebuild ==
    /\ round_pc = "persisted"
    /\ rebuilt' = from_dict(line)
    /\ round_pc' = "rebuilt"
    /\ UNCHANGED <<event, line>>

(* --------------------------- specifications ---------------------------- *)
vars == <<auditVars, failVars, ensVars, routerVars, mainVars, roundVars>>

Init ==
    AuditInit /\ FailInit /\ EnsembleInit /\ RouterInit /\ MainInit /\ RoundTripInit

\* One AuditLogger used by one caller at a time.
Next ==
    \/ Tick /\ UNCHANGED <<roundVars, failVars, ensVars, routerVars, mainVars>>
    \/ LogEvent /\ UNCHANGED <<roundVars, failVars, ensVars, routerVars, mainVars>>
    \/ flush_buffer /\ UNCHANGED <<roundVars, failVars, ensVars, routerVars, mainVars>>
    \/ QueryEvents /\ UNCHANGED <<roundVars, failVars, ensVars, routerVars, mainVars>>
    \/ verify_chain_integrity /\ UNCHANGED <<roundVars, failVars, ensVars, routerVars, mainVars>>

Spec == Init /\ [][Next]_vars

\* The same logger while somebody edits the files behind its back.
NextTamper ==
    \/ Tick /\ UNCHANGED <<roundVars, failVars, ensVars, routerVars, mainVars>>
    \/ LogEvent /\ UNCHANGED <<roundVars, failVars, ensVars, routerVars, mainVars>>
    \/ flush_buffer /\ UNCHANGED <<roundVars, failVars, ensVars, routerVars, mainVars>>
    \/ QueryEvents /\ UNCHANGED <<roundVars, failVars, ensVars, routerVars, mainVars>>
    \/ verify_chain_integrity /\ UNCHANGED <<roundVars, failVars, ensVars, routerVars, mainVars>>
    \/ Tamper /\ UNCHANGED <<roundVars, failVars, ensVars, routerVars, mainVars>>

SpecTamper == Init /\ [][NextTamper]_vars

\* The sequential logger, re-created now and then over the same directory.
NextRestart ==
    \/ Tick /\ UNCHANGED <<roundVars, failVars, ensVars, routerVars, mainVars>>
    \/ LogEvent /\ UNCHANGED <<roundVars, failVars, ensVars, routerVars, mainVars>>
    \/ flush_buffer /\ UNCHANGED <<roundVars, failVars, ensVars, routerVars, mainVars>>
    \/ verify_chain_integrity /\ UNCHANGED <<roundVars, failVars, ensVars, routerVars, mainVars>>
    \/ Recreate_AfterDel /\ UNCHANGED <<roundVars, failVars, ensVars, routerVars, mainVars>>
    \/ Recreate_Rebind /\ UNCHANGED <<roundVars, failVars, ensVars, routerVars, mainVars>>
    \/ Recreate_AfterKill /\ UNCHANGED <<roundVars, failVars, ensVars, routerVars, mainVars>>

SpecRestart == Init /\ [][NextRestart]_vars

\* The sequential logger plus damage to persisted lines.
NextCorrupt ==
    \/ Tick /\ UNCHANGED <<roundVars, failVars, ensVars, routerVars, mainVars>>
    \/ LogEvent /\ UNCHANGED <<roundVars, failVars, ensVars, routerVars, mainVars>>
    \/ flush_buffer /\ UNCHANGED <<roundVars, failVars, ensVars, routerVars, mainVars>>
    \/ QueryEvents /\ UNCHANGED <<roundVars, failVars, ensVars, routerVars, mainVars>>
    \/ verify_chain_integrity /\ UNCHANGED <<roundVars, failVars, ensVars, routerVars, mainVars>>
    \/ CorruptLine /\ UNCHANGED <<roundVars, failVars, ensVars, routerVars, mainVars>>

SpecCorrupt == Init /\ [][NextCorrupt]_vars

\* The same logger while somebody removes, inserts or reorders lines.
NextEdit ==
    \/ Tick /\ UNCHANGED <<roundVars, failVars, ensVars, routerVars, mainVars>>
    \/ LogEvent /\ UNCHANGED <<roundVars, failVars, ensVars, routerVars, mainVars>>
    \/ flush_buffer /\ UNCHANGED <<roundVars, failVars, ensVars, routerVars, mainVars>>
    \/ verify_chain_integrity /\ UNCHANGED <<roundVars, failVars, ensVars, routerVars, mainVars>>
    \/ RemoveLine /\ UNCHANGED <<roundVars, failVars, ensVars, routerVars, mainVars>>
    \/ InsertLine /\ UNCHANGED <<roundVars, failVars, ensVars, routerVars, mainVars>>
    \/ SwapLines /\ UNCHANGED <<roundVars, failVars, ensVars, routerVars, mainVars>>

SpecEdit == Init /\ [][NextEdit]_vars

\* Two callers inside log_event at the same time.
NextConc ==
    \/ Tick /\ UNCHANGED <<roundVars, failVars, ensVars, routerVars, mainVars>>
    \/ (\E t \in Threads : LogCreate(t)) /\ UNCHANGED <<roundVars, failVars, ensVars, routerVars, mainVars>>
    \/ (\E t \in Threads : LogSetHash(t)) /\ UNCHANGED <<roundVars, failVars, ensVars, routerVars, mainVars>>
    \/ (\E t \in Threads : LogAppend(t)) /\ UNCHANGED <<roundVars, failVars, ensVars, routerVars, mainVars>>
    \/ (\E t \in Threads : LogReturn(t)) /\ UNCHANGED <<roundVars, failVars, ensVars, routerVars, mainVars>>
    \/ flush_buffer /\ UNCHANGED <<roundVars, failVars, ensVars, routerVars, mainVars>>
    \/ verify_chain_integrity /\ UNCHANGED <<roundVars, failVars, ensVars, routerVars, mainVars>>

SpecConc == Init /\ [][NextConc]_vars

\* One EnsembleService serving analyze_with_validation calls.
NextEnsemble ==
    \/ Construct /\ UNCHANGED <<roundVars, auditVars, failVars, routerVars, mainVars>>
    \/ ParallelOpenAI /\ UNCHANGED <<roundVars, auditVars, failVars, routerVars, mainVars>>
    \/ ParallelGemini /\ UNCHANGED <<roundVars, auditVars, failVars, routerVars, mainVars>>
    \/ FallbackOpenAI /\ UNCHANGED <<roundVars, auditVars, failVars, routerVars, mainVars>>
    \/ FallbackGemini /\ UNCHANGED <<roundVars, auditVars, failVars, routerVars, mainVars>>
    \/ CompareAndDecide /\ UNCHANGED <<roundVars, auditVars, failVars, routerVars, mainVars>>

SpecEnsemble == Init /\ [][NextEnsemble]_vars

\* One LLMRouter serving route calls.
NextRouter ==
    \/ ConstructRouter /\ UNCHANGED <<roundVars, auditVars, failVars, ensVars, mainVars>>
    \/ Route /\ UNCHANGED <<roundVars, auditVars, failVars, ensVars, mainVars>>
    \/ GetRoutingDetails /\ UNCHANGED <<roundVars, auditVars, failVars, ensVars, mainVars>>

SpecRouter == Init /\ [][NextRouter]_vars

\* The logger on storage whose writes may fail, until it is destroyed.
NextFail ==
    \/ Tick /\ UNCHANGED <<roundVars, failVars, ensVars, routerVars, mainVars>>
    \/ (alive /\ LogEvent /\ outcome' = "ok" /\ UNCHANGED <<roundVars, alive, write_failures>>)
           /\ UNCHANGED <<roundVars, ensVars, routerVars, mainVars>>
    \/ (alive /\ flush_buffer /\ outcome' = "ok" /\ UNCHANGED <<roundVars, alive, write_failures>>)
           /\ UNCHANGED <<roundVars, ensVars, routerVars, mainVars>>
    \/ log_event_RotationFlushFails /\ UNCHANGED <<roundVars, ensVars, routerVars, mainVars>>
    \/ log_event_FullFlushFails /\ UNCHANGED <<roundVars, ensVars, routerVars, mainVars>>
    \/ flush_buffer_Fails /\ UNCHANGED <<roundVars, ensVars, routerVars, mainVars>>
    \/ Del /\ UNCHANGED <<roundVars, ensVars, routerVars, mainVars>>
    \/ Del_WriteFails /\ UNCHANGED <<roundVars, ensVars, routerVars, mainVars>>

SpecFail == Init /\ [][NextFail]_vars

\* The application: one session analysing tasks.
NextAnalyze ==
    \/ initialize_session_state /\ UNCHANGED <<roundVars, auditVars, failVars>>
    \/ AnalyzeRoute /\ UNCHANGED <<roundVars, auditVars, failVars, ensVars>>
    \/ AnalyzeOpenAI /\ UNCHANGED <<roundVars, auditVars, failVars, ensVars, routerVars>>
    \/ AnalyzeGemini /\ UNCHANGED <<roundVars, auditVars, failVars, ensVars, routerVars>>
    \/ AnalyzeEnsembleCall /\ UNCHANGED <<roundVars, auditVars, failVars, routerVars>>
    \/ AnalyzeEnsembleStep(ParallelGemini) /\ UNCHANGED <<roundVars, auditVars, failVars, routerVars>>
    \/ AnalyzeEnsembleStep(FallbackOpenAI) /\ UNCHANGED <<roundVars, auditVars, failVars, routerVars>>
    \/ AnalyzeEnsembleStep(FallbackGemini) /\ UNCHANGED <<roundVars, auditVars, failVars, routerVars>>
    \/ AnalyzeEnsembleStep(CompareAndDecide) /\ UNCHANGED <<roundVars, auditVars, failVars, routerVars>>
    \/ AnalyzeEnsembleReturn /\ UNCHANGED <<roundVars, auditVars, failVars, ensVars, routerVars>>
    \/ AnalyzeEnsembleRaised /\ UNCHANGED <<roundVars, auditVars, failVars, ensVars, routerVars>>

SpecAnalyze == Init /\ [][NextAnalyze]_vars

\* One event created, persisted and read back.
NextRoundTrip ==
    \/ Create /\ UNCHANGED <<auditVars, failVars, ensVars, routerVars, mainVars>>
    \/ Persist /\ UNCHANGED <<auditVars, failVars, ensVars, routerVars, mainVars>>
    \/ Rebuild /\ UNCHANGED <<auditVars, failVars, ensVars, routerVars, mainVars>>

SpecRoundTrip == Init /\ [][NextRoundTrip]_vars

(* ------------------------------ claims --------------------------------- *)
\* The events of day segment d in append order: the persisted lines, then
\* (for the active segment) the events still in the buffer.
Segment(d) ==
    storage[d] \o (IF d = current_log_file
                   THEN [i \in 1..Len(events_buffer) |-> json_line(events_buffer[i])]
                   ELSE <<>>)

Linked(seg) ==
    \A i \in 1..Len(seg) :
        /\ seg[i].previous_hash = (IF i = 1 THEN ZeroHash ELSE seg[i - 1].hash)
        /\ seg[i].hash = calculate_hash(seg[i])

\* C1: once a persisted event's details were altered in storage without
\* recomputing its hash, verify_chain_integrity returns intact = false and a
\* broken-chain entry naming that event's file and line.
C1_TamperDetected ==
    (last_op = "verify" /\ tampered # {}) =>
        /\ ~report[1].intact
        /\ \A pos \in tampered :
              \E k \in 1..Len(report[1].broken_chains) :
                  /\ report[1].broken_chains[k].file = pos[1]
                  /\ report[1].broken_chains[k].line = pos[2]

C3_VerifyIntact ==
    last_op = "verify" =>
        /\ report[1].intact
        /\ report[1].total_events = next_id - 1
        /\ report[1].verified_events = next_id - 1

\* C4: with two concurrent callers of log_event no two events of a segment
\* carry the same previous_hash and every event links to the one committed
\* just before it.
C4_SerializedAppends ==
    \A d \in Days :
        /\ Linked(Segment(d))
        /\ \A i, j \in 1..Len(Segment(d)) :
              i # j => Segment(d)[i].previous_hash # Segment(d)[j].previous_hash

\* C16: a query returns every event that log_event has returned, matches
\* the filters and is preceded by fewer matching events than the limit, also
\* one that was only in the buffer when the query began; the query leaves
\* the content of the log as it was.
C16_QuerySeesAppended ==
    last_op = "query" =>
        LET c == query_call[1]
            log == LogContent(storage, events_buffer)
            earlier(k) == Cardinality({j \in 1..(k - 1) : Matches(log[j], c.filters)})
        IN  /\ log = c.log
            /\ \A id \in 1..(next_id - 1) :
                  \E k \in 1..Len(log) : log[k].event_id = id
            /\ \A k \in 1..Len(log) :
                  (Matches(log[k], c.filters) /\ earlier(k) < c.limit) =>
                      \E i \in 1..Len(results) : results[i] = log[k]

\* C16 witness: a query with limit 2 began while the second event was still
\* in the buffer and returned both events.
C16_Witness ==
    /\ last_op = "query"
    /\ query_call[1].pending = 1
    /\ query_call[1].limit = 2
    /\ Len(results) = 2
    /\ results[2].event_id = next_id - 1
    /\ events_buffer = <<>>

\* The subsequence of the events of log that match the filters f.
RECURSIVE MatchingEvents(_, _, _)
MatchingEvents(log, k, f) ==
    IF k > Len(log) THEN <<>>
    ELSE (IF Matches(log[k], f) THEN <<log[k]>> ELSE <<>>)
             \o MatchingEvents(log, k + 1, f)

\* C25: for every limit >= 0 a query returns exactly the first
\* min(limit, number of matching events) matching events in append order,
\* and never more than limit events.
C25_QueryStopsAtLimit ==
    last_op = "query" =>
        LET c == query_call[1]
            matching == MatchingEvents(c.log, 1, c.filters)
        IN  /\ Len(results) <= c.limit
            /\ results = SubSeq(matching, 1, Min(c.limit, Len(matching)))

\* C22: a verify_chain_integrity call made right after another one, with no
\* append in between, returns the report the first call returned: the
\* report just returned is the report of a verification started now.
C22_VerifyIdempotent ==
    last_op = "verify" =>
        report[1] = VerifyReport(FlushedStorage(storage, current_log_file,
                                                events_buffer))

\* C22 witness: a verification that found one event pending in the buffer
\* of the second segment and reported a broken link.
C22_Witness ==
    /\ last_op = "verify"
    /\ Len(storage[2]) = 1
    /\ events_buffer = <<>>
    /\ report[1].total_events >= 2
    /\ ~report[1].intact

\* C27: every event lies in the segment that was active when it was
\* appended (the day of its timestamp): the persisted lines of a day file
\* are events of that day, the buffer holds only events of the active
\* segment, so a day change leaves no event of the old day unwritten, and
\* every appended event is in the log exactly once.
C27_RotationFlushesOldDay ==
    /\ \A d \in Days : \A i \in 1..Len(storage[d]) : storage[d][i].timestamp = d
    /\ \A i \in 1..Len(events_buffer) :
          events_buffer[i].timestamp = current_log_file
    /\ LET log == LogContent(storage, events_buffer)
       IN  \A id \in 1..(next_id - 1) :
               Cardinality({k \in 1..Len(log) : log[k].event_id = id}) = 1

\* C27 witness: the first append of day 2 found one event of day 1 in the
\* buffer; that event is now the only line of the day 1 file and the new
\* event is pending in segment 2.
C27_Witness ==
    /\ last_op = "log_event"
    /\ current_log_file = 2
    /\ Len(storage[1]) = 1
    /\ storage[2] = <<>>
    /\ Len(events_buffer) = 1
    /\ events_buffer[1].previous_hash = ZeroHash

\* C23: an AuditEvent rebuilt with from_dict from its persisted to_dict
\* serialization has, recomputed with _calculate_hash, exactly the stored
\* hash.
C23_RoundTripHash ==
    round_pc = "rebuilt" => calculate_hash(rebuilt) = line.hash

\* C18: once lines were removed from, inserted into or reordered in the
\* persisted log, verify_chain_integrity returns intact = false and reports
\* a broken previous-hash link.
C18_StructuralEditDetected ==
    (last_op = "verify" /\ tampered # {}) =>
        /\ ~report[1].intact
        /\ \E k \in 1..Len(report[1].broken_chains) :
              "expected_previous_hash" \in DOMAIN report[1].broken_chains[k]

\* C17: a failed write is raised to the caller, and every event log_event
\* has accepted is in a log file or still pending in the buffer.
C17_NoSilentDrop ==
    /\ outcome # "ignored"
    /\ \A id \in 1..(next_id - 1) :
          \E k \in 1..Len(LogContent(storage, events_buffer)) :
              LogContent(storage, events_buffer)[k].event_id = id

\* C15: once analyze_task has returned, the audit log holds a routing
\* decision event and a model response event.
C15_AnalysisAudited ==
    analyze_pc = "returned" =>
        /\ \E k \in 1..Len(LogContent(storage, events_buffer)) :
              LogContent(storage, events_buffer)[k].event_type = "routing_decision"
        /\ \E k \in 1..Len(LogContent(storage, events_buffer)) :
              LogContent(storage, events_buffer)[k].event_type = "llm_response"

(* ---------------------- claims: ensemble engine ------------------------ *)
Returned == pc_ens = "done"
HighDeviation == comparison.score_deviation > deviation_threshold
\* the provider whose confidence is strictly higher, or "tie"
HigherConfidence ==
    IF comparison.openai_confidence > comparison.gemini_confidence THEN "openai"
    ELSE IF comparison.gemini_confidence > comparison.openai_confidence THEN "gemini"
    ELSE "tie"
ScoreOf(p) == IF p = "openai" THEN comparison.openai_score ELSE comparison.gemini_score
ConfidenceOf(p) ==
    IF p = "openai" THEN comparison.openai_confidence ELSE comparison.gemini_confidence

\* C5 as stated: when the scores differ by more than the threshold the
\* decision is ESCALATE, final_score is exactly the average of the two
\* scores, confidence is exactly the lower confidence, and human review is
\* required.
C5_EscalateExact ==
    (Returned /\ HighDeviation) =>
        /\ decision.decision_type = "ESCALATE"
        /\ decision.final_score * 20 = comparison.openai_score + comparison.gemini_score
        /\ decision.confidence * 10 =
               Min(comparison.openai_confidence, comparison.gemini_confidence)
        /\ decision.requires_human_review

\* C5 amended: when the scores differ by more than the threshold the decision
\* is ESCALATE, final_score is the average rounded to one decimal, confidence
\* is the lower confidence rounded to two decimals, human review is required.
C5_EscalateRounded ==
    (Returned /\ HighDeviation) =>
        /\ decision.decision_type = "ESCALATE"
        /\ decision.final_score =
               RoundHalfEven(comparison.openai_score + comparison.gemini_score, 20)
        /\ decision.confidence =
               RoundHalfEven(IF comparison.openai_confidence
                                   <= comparison.gemini_confidence
                             THEN comparison.openai_confidence
                             ELSE comparison.gemini_confidence, 10)
        /\ decision.requires_human_review

\* C5 witness: scores 80 and 40 under the default threshold 15 were escalated
\* with final_score 60.0.
C5_Witness ==
    /\ Returned
    /\ deviation_threshold = 1500
    /\ comparison.openai_score = 8000
    /\ comparison.gemini_score = 4000
    /\ decision.decision_type = "ESCALATE"
    /\ decision.final_score = 600

\* C6 as stated: when the scores differ by at most the threshold and the
\* confidences differ, the decision is CONSENSUS with exactly the score and
\* confidence of the provider of strictly higher confidence, no human review.
C6_ConsensusExact ==
    (Returned /\ ~HighDeviation /\ HigherConfidence # "tie") =>
        /\ decision.decision_type = "CONSENSUS"
        /\ decision.final_score * 10 = ScoreOf(HigherConfidence)
        /\ decision.confidence * 10 = ConfidenceOf(HigherConfidence)
        /\ ~decision.requires_human_review

\* C6 amended: when the scores differ by at most the threshold and the
\* confidences differ, the decision is CONSENSUS, final_score is the score of
\* the provider of strictly higher confidence rounded to one decimal,
\* confidence is that provider's confidence rounded to two decimals, and no
\* human review is required.
C6_ConsensusRounded ==
    (Returned /\ ~HighDeviation /\ HigherConfidence # "tie") =>
        /\ decision.decision_type = "CONSENSUS"
        /\ decision.final_score = RoundHalfEven(ScoreOf(HigherConfidence), 10)
        /\ decision.confidence = RoundHalfEven(ConfidenceOf(HigherConfidence), 10)
        /\ ~decision.requires_human_review

\* C6 witness: scores 70/72 with confidences 0.6/0.9 gave CONSENSUS with
\* final_score 72.0.
C6_Witness ==
    /\ Returned
    /\ comparison.openai_score = 7000
    /\ comparison.gemini_score = 7200
    /\ comparison.openai_confidence = 600
    /\ comparison.gemini_confidence = 900
    /\ decision.decision_type = "CONSENSUS"
    /\ decision.final_score = 720

\* C7: in the CONSENSUS case with equal confidences the decision carries the
\* score and confidence of the primary provider (OpenAI).
C7_TiePicksPrimary ==
    (Returned /\ decision.decision_type = "CONSENSUS" /\ HigherConfidence = "tie") =>
        /\ decision.final_score = RoundHalfEven(comparison.openai_score, 10)
        /\ decision.confidence = RoundHalfEven(comparison.openai_confidence, 10)

\* C8: analyze_with_validation never raises, whatever the providers answer.
C8_NeverRaises == pc_ens # "raised"

\* C9: when a provider call fails a decision is still produced, and the
\* failing provider enters the comparison with score 50 and confidence 0.
C9_FailedProviderNeutral ==
    /\ (pc_ens = "raised") => (openai_response.success /\ gemini_response.success)
    /\ (Returned /\ ~openai_response.success) =>
           (comparison.openai_score = 5000 /\ comparison.openai_confidence = 0)
    /\ (Returned /\ ~gemini_response.success) =>
           (comparison.gemini_score = 5000 /\ comparison.gemini_confidence = 0)

\* C10: a decision built on a failed provider call differs, in its comparison
\* or in its reasoning text, from every decision built on two successful
\* calls.
C10_FailureRecorded ==
    (Returned /\ (~openai_response.success \/ ~gemini_response.success)) =>
        \A ro, rg \in {r \in GatewayResponses : r.success /\ r.content = "object"} :
            LET c == compare_results(analyze_risk(ro), analyze_long_context(rg),
                                     deviation_threshold)
            IN  c.raised \/ <<c, make_decision(c).reasoning>>
                                # <<comparison, decision.reasoning>>

\* C19: a decision exists only once both providers have been invoked and
\* both results are in, and it is the decision computed from those two
\* results alone.
C19_DecisionAfterBoth ==
    (decision # NoDecision) =>
        /\ pc_ens = "done"
        /\ invocations.openai >= 1
        /\ invocations.gemini >= 1
        /\ openai_result # NoResult /\ ~openai_result.raised
        /\ gemini_result # NoResult /\ ~gemini_result.raised
        /\ LET c == compare_results(openai_result, gemini_result,
                                    deviation_threshold)
           IN  ~c.raised /\ comparison = c /\ decision = make_decision(c)

\* C19 witness: a decision taken from an OpenAI error result (the call
\* failed) and a Gemini answer of 80 with confidence 0.9.
C19_Witness ==
    /\ pc_ens = "done"
    /\ ~openai_response.success
    /\ gemini_response.success
    /\ comparison.openai_score = 5000
    /\ comparison.gemini_score = 8000
    /\ comparison.gemini_confidence = 900
    /\ decision.decision_type = "ESCALATE"

\* C20: within one analyze_with_validation call each provider is invoked at
\* most once, also when the parallel execution raises and the sequential
\* fallback runs.
C20_AtMostOneCallEach ==
    invocations.openai <= 1 /\ invocations.gemini <= 1

\* C21: in every returned decision risk_level is the band of the returned
\* final_score: LOW below 40, MEDIUM from 40, HIGH from 60, CRITICAL from 80.
C21_RiskLevelOfFinalScore ==
    Returned =>
        decision.risk_level =
            (IF decision.final_score >= 800 THEN "CRITICAL"
             ELSE IF decision.final_score >= 600 THEN "HIGH"
             ELSE IF decision.final_score >= 400 THEN "MEDIUM"
             ELSE "LOW")

\* C28: a returned decision is ESCALATE exactly when the score deviation
\* exceeds the threshold and CONSENSUS otherwise, never WEIGHTED_AVERAGE;
\* requires_human_review holds exactly for ESCALATE and model_agreement is
\* its negation.
C28_TwoOutcomes ==
    Returned =>
        /\ decision.decision_type =
               (IF comparison.score_deviation > deviation_threshold
                THEN "ESCALATE" ELSE "CONSENSUS")
        /\ decision.requires_human_review = (decision.decision_type = "ESCALATE")
        /\ decision.model_agreement = ~decision.requires_human_review

\* C28 witness: scores 70 and 72 under the threshold 2, a deviation exactly
\* at the threshold, gave CONSENSUS without human review.
C28_Witness ==
    /\ Returned
    /\ deviation_threshold = 200
    /\ comparison.score_deviation = 200
    /\ decision.decision_type = "CONSENSUS"
    /\ ~decision.requires_human_review
    /\ decision.model_agreement

\* C29: an EnsembleService built with an explicit deviation_threshold t
\* compares against t, for every t including 0; the default 15 applies only
\* when no threshold is given.
C29_ExplicitThresholdUsed ==
    [][\A arg \in ThresholdArgs :
          EnsembleService(arg) =>
              deviation_threshold' =
                  (IF arg = {} THEN 1500 ELSE CHOOSE t \in arg : TRUE)]_vars

(* --------------------------- claims: router ---------------------------- *)
Routed == router_pc = "routed"

\* C11: route returns the selection of the first rule that matches, in the
\* order strict JSON -> openai, context above its threshold -> gemini,
\* multi-document -> gemini, impact above its threshold -> ensemble,
\* otherwise openai; a multi-document or long-context task is never routed
\* to ensemble.
C11_FirstMatchWins ==
    Routed =>
        /\ task.requires_strict_json => selected_model = "openai"
        /\ (~task.requires_strict_json
              /\ task.context_length > context_length_threshold)
               => selected_model = "gemini"
        /\ (~task.requires_strict_json
              /\ ~(task.context_length > context_length_threshold)
              /\ task.multi_document)
               => selected_model = "gemini"
        /\ (~task.requires_strict_json
              /\ ~(task.context_length > context_length_threshold)
              /\ ~task.multi_document
              /\ task.business_impact > business_impact_threshold)
               => selected_model = "ensemble"
        /\ (~task.requires_strict_json
              /\ ~(task.context_length > context_length_threshold)
              /\ ~task.multi_document
              /\ ~(task.business_impact > business_impact_threshold))
               => selected_model = "openai"
        /\ (task.multi_document
              \/ task.context_length > context_length_threshold)
               => selected_model # "ensemble"

\* C11 witness: a multi-document task of the highest business impact was
\* routed to gemini under the default thresholds.
C11_Witness ==
    /\ Routed
    /\ context_length_threshold = 80000
    /\ business_impact_threshold = 800
    /\ ~task.requires_strict_json
    /\ task.multi_document
    /\ task.context_length = 1000
    /\ task.business_impact = 1000
    /\ selected_model = "gemini"

\* C12: a task that requires strict JSON is routed to openai whatever its
\* context length, multi-document flag and business impact.
C12_StrictJsonOverrides ==
    (Routed /\ task.requires_strict_json) => selected_model = "openai"

\* C12 witness: a strict-JSON task that is also long, multi-document and of
\* high impact was routed to openai.
C12_Witness ==
    /\ Routed
    /\ task.requires_strict_json
    /\ task.context_length > context_length_threshold
    /\ task.multi_document
    /\ task.business_impact > business_impact_threshold
    /\ selected_model = "openai"

\* C13 as stated: a task whose context_length equals the context threshold
\* is never routed to gemini.
C13_ExactContextNeverGemini ==
    (Routed /\ task.context_length = context_length_threshold)
        => selected_model # "gemini"

\* C13 amended: a task whose context_length equals the context threshold is
\* routed to gemini only when it is multi-document and does not require
\* strict JSON.
C13_ExactContextGeminiOnlyMultiDocument ==
    (Routed /\ task.context_length = context_length_threshold) =>
        (selected_model = "gemini"
            <=> (task.multi_document /\ ~task.requires_strict_json))

\* C13 witness: a single-document task of exactly 80000 tokens under the
\* default threshold 80000 was routed to openai.
C13_Witness ==
    /\ Routed
    /\ context_length_threshold = 80000
    /\ task.context_length = 80000
    /\ ~task.multi_document
    /\ ~task.requires_strict_json
    /\ selected_model = "openai"

\* C14: a task whose business_impact equals the impact threshold is never
\* routed to ensemble.
C14_ExactImpactNeverEnsemble ==
    (Routed /\ task.business_impact = business_impact_threshold)
        => selected_model # "ensemble"

\* C14 witness: a short single-document task of impact exactly 0.8 under the
\* default threshold 0.8 was routed to openai.
C14_Witness ==
    /\ Routed
    /\ business_impact_threshold = 800
    /\ task.business_impact = 800
    /\ ~task.requires_strict_json
    /\ ~task.multi_document
    /\ task.context_length = 1000
    /\ selected_model = "openai"

\* The number written by format(n, ",")
RECURSIVE GroupsValue(_)
GroupsValue(g) ==
    IF Len(g) = 1 THEN g[1]
    ELSE GroupsValue(SubSeq(g, 1, Len(g) - 1)) * 1000 + g[Len(g)]

\* C24: the reason names the target route selected for the same task
\* (OpenAI, Gemini or Ensemble) and explains the rule route applied: the
\* long-context reason restates context_length, the ensemble reason restates
\* business_impact, and each is given exactly when that rule decided.
C24_ReasonMatchesRoute ==
    routing_details # <<>> =>
        LET d == routing_details[1]
            t == d.task_characteristics
            long_context == /\ ~t.requires_strict_json
                            /\ t.context_length > d.thresholds.context_length_threshold
        IN  /\ d.reason.target =
                   (IF d.selected_model = "openai" THEN "OpenAI"
                    ELSE IF d.selected_model = "gemini" THEN "Gemini"
                    ELSE "Ensemble")
            /\ (d.reason.rule = "Large context") = long_context
            /\ long_context => GroupsValue(d.reason.value) = t.context_length
            /\ (d.reason.rule = "High business impact") = (d.selected_model = "ensemble")
            /\ d.selected_model = "ensemble" =>
                   d.reason.value[1] * 10 + d.reason.value[2] = t.business_impact
            /\ d.reason.rule = "Structured JSON output required" => t.requires_strict_json
            /\ d.reason.rule = "Multi-document analysis" => t.multi_document

\* C24 witness: a task of 80,001 tokens and business impact 80.1% went to
\* gemini under the default thresholds and the reason restates "80,001".
C24_Witness ==
    /\ routing_details # <<>>
    /\ routing_details[1].selected_model = "gemini"
    /\ routing_details[1].reason.rule = "Large context"
    /\ routing_details[1].reason.value = <<80, 1>>
    /\ routing_details[1].task_characteristics.business_impact = 801
    /\ routing_details[1].thresholds.business_impact_threshold = 800

\* C26: a persisted record that cannot be parsed never aborts a scan:
\* verify_chain_integrity returns a report that lists it as a violation and
\* has visited every other record, query_events returns and still holds
\* every other matching event the limit leaves room for.
C26_UnparsableNeverAborts ==
    LET log == LogLines(storage, 1)
        good == {k \in 1..Len(log) : ~Unparsable(log[k].data)}
    IN  /\ (last_op = "verify" /\ tampered # {}) =>
              /\ ~report[1].raised
              /\ report[1].total_events = Cardinality(good)
              /\ \A pos \in tampered :
                    \E k \in 1..Len(report[1].broken_chains) :
                        /\ report[1].broken_chains[k].file = pos[1]
                        /\ report[1].broken_chains[k].line = pos[2]
                        /\ "reason" \in DOMAIN report[1].broken_chains[k]
        /\ (last_op = "query" /\ tampered # {}) =>
              /\ ~query_call[1].raised
              /\ \A k \in good :
                    (/\ Matches(log[k].data, query_call[1].filters)
                     /\ Cardinality({j \in good : j < k /\
                            Matches(log[j].data, query_call[1].filters)})
                          < query_call[1].limit)
                        => \E i \in 1..Len(results) : results[i] = log[k].data

\* C30: a logger re-created over a directory holding today's segment
\* continues the chain from the last persisted event of that segment, and
\* after any sequence of appends, flushes and re-creations every segment
\* is still linked.
C30_ChainSurvivesRestart ==
    /\ last_op = "recreate" =>
          last_hash =
              (IF storage[current_log_file] = <<>> THEN ZeroHash
               ELSE storage[current_log_file][Len(storage[current_log_file])].hash)
    /\ \A d \in Days :
          \A i \in 1..Len(Segment(d)) :
              Segment(d)[i].previous_hash =
                  (IF i = 1 THEN ZeroHash ELSE Segment(d)[i - 1].hash)

====
